---- MODULE Spec2Model ----
(***************************************************************************)
(* Model of app/backend/prepdocs.py: the command-line entry point that     *)
(* builds a FileStrategy from the parsed arguments (setup_file_strategy)   *)
(* and drives it (main: optional strategy.setup, then strategy.run).       *)
(*                                                                         *)
(* The process is run repeatedly against one artifact store and one search *)
(* index, which persist between executions.  prepdocslib (FileStrategy,    *)
(* BlobManager, the embedding service, the search manager) is not part of  *)
(* prepdocs.py; its behaviour is modelled from the written specification   *)
(* of the pipeline and is marked as such where it is defined.              *)
(***************************************************************************)
EXTENDS Naturals, FiniteSets

\* ------------------------------------------------------------- bounds
\* Number of sections the splitter produces for document D1 (D2: one).
MaxSections == 2
\* Transient per-document failures (parse, embedding, storage) in one execution.
MaxTransients == 1

\* The source documents on disk, by path.
Docs == {"D1", "D2"}

NumSections(d) == IF d = "D1" THEN MaxSections ELSE 1

\* ------------------------------------------------------- input values
\* A key is absent (None), a blank string (which no service accepts), or a
\* string the service accepts.
NoKey == "None"
BlankKey == "  "
GoodKey == "good"
Keys == {NoKey, BlankKey, GoodKey}

NoService == "None"
Services == {NoService, "dtfs-document-intelligence"}

\* args.files: absent (nargs="?"), or a pattern, modelled by the documents
\* it matches.
FilesArgs == { [given |-> FALSE, match |-> {}] } \cup
             { [given |-> TRUE, match |-> S] : S \in (SUBSET Docs) \ {{}} }

\* openaimodelname: the recommended model, or another one.
ModelNames == {"text-embedding-ada-002", "other-model"}

\* The options of the command line that are no credentials.
OptionArgs ==
  [ files : FilesArgs,
    remove : BOOLEAN,
    removeall : BOOLEAN,
    novectors : BOOLEAN,
    disablebatchvectors : BOOLEAN,
    openaihost : {"azure", "openai"},
    openaimodelname : ModelNames ]

\* The credentials and identities: options defaulting to the environment,
\* and OPENAI_API_KEY, read from the environment.
CredentialUniverse ==
  [ storagekey : Keys,
    searchkey : Keys,
    formrecognizerservice : Services,
    formrecognizerkey : Keys,
    openai_api_key : Keys ]

Bit(b) == IF b THEN 1 ELSE 0

\* Number of credentials / identities that are not usable.
FaultCount(a) ==
  Bit(a.storagekey # GoodKey) + Bit(a.searchkey # GoodKey)
  + Bit(a.formrecognizerservice = NoService) + Bit(a.formrecognizerkey # GoodKey)
  + Bit(a.openai_api_key # GoodKey)

\* Every credential usable, or exactly one of them missing or blank.
CredentialArgs == { c \in CredentialUniverse : FaultCount(c) <= 1 }

\* args, as parse_args returns it (with the environment's OPENAI_API_KEY).
ArgsOf(o, c) ==
  [ files |-> o.files, remove |-> o.remove, removeall |-> o.removeall,
    novectors |-> o.novectors, disablebatchvectors |-> o.disablebatchvectors,
    openaihost |-> o.openaihost, openaimodelname |-> o.openaimodelname,
    storagekey |-> c.storagekey, searchkey |-> c.searchkey,
    formrecognizerservice |-> c.formrecognizerservice,
    formrecognizerkey |-> c.formrecognizerkey,
    openai_api_key |-> c.openai_api_key ]

IdleArgs ==
  [ files |-> [given |-> FALSE, match |-> {}],
    remove |-> FALSE, removeall |-> FALSE, novectors |-> FALSE,
    disablebatchvectors |-> FALSE, openaihost |-> "azure",
    openaimodelname |-> "text-embedding-ada-002",
    storagekey |-> GoodKey, searchkey |-> GoodKey,
    formrecognizerservice |-> "dtfs-document-intelligence",
    formrecognizerkey |-> GoodKey, openai_api_key |-> GoodKey ]

\* --------------------------------------------- prepdocs.py, pure parts

\* is_key_empty(key): None, or blank after strip.  Defined by the program
\* and called nowhere in it.
is_key_empty(key) == key = NoKey \/ key = BlankKey

\* azure.core's AzureKeyCredential(key) raises TypeError unless key is a str;
\* any string, blank or wrong, is accepted.
AzureKeyCredentialRaises(key) == key = NoKey

\* use_vectors = not args.novectors
use_vectors(a) == ~a.novectors

NoEmbeddings ==
  [present |-> FALSE, credential |-> NoKey, disable_batch |-> FALSE,
   model |-> "other-model"]

\* Faulty variant of EmbeddingsOf: the novectors flag is not consulted.
EmbeddingsOf_IgnoresNoVectors(a) ==
  IF a.openaihost # "openai"
  THEN [present |-> TRUE, credential |-> a.openai_api_key,
        disable_batch |-> a.disablebatchvectors, model |-> a.openaimodelname]
  ELSE NoEmbeddings

\* Faulty variant of EmbeddingsOf: disablebatchvectors is not passed on.
EmbeddingsOf_DropsDisableBatch(a) ==
  IF use_vectors(a) /\ a.openaihost # "openai"
  THEN [present |-> TRUE, credential |-> a.openai_api_key,
        disable_batch |-> FALSE, model |-> a.openaimodelname]
  ELSE NoEmbeddings

\* embeddings: None, unless vectors are wanted and the host is not "openai".
EmbeddingsOf(a) ==
  IF use_vectors(a) /\ a.openaihost # "openai"
  THEN [present |-> TRUE, credential |-> a.openai_api_key,
        disable_batch |-> a.disablebatchvectors, model |-> a.openaimodelname]
  ELSE NoEmbeddings

\* Faulty variant of DocumentActionOf: remove is tested before removeall.
DocumentActionOf_RemoveFirst(a) ==
  IF a.remove THEN "Remove"
  ELSE IF a.removeall THEN "RemoveAll"
  ELSE "Add"

\* Faulty variant of DocumentActionOf: the first branch tests only remove.
DocumentActionOf_RemoveOnly(a) ==
  IF a.remove THEN "Remove"
  ELSE "Add"

\* Faulty variant of DocumentActionOf: remove also selects RemoveAll.
DocumentActionOf_RemoveIsRemoveAll(a) ==
  IF a.removeall \/ a.remove THEN "RemoveAll"
  ELSE "Add"

\* The if / elif / else choosing the DocumentAction.
DocumentActionOf(a) ==
  IF a.removeall THEN "RemoveAll"
  ELSE IF a.remove THEN "Remove"
  ELSE "Add"

\* The FileStrategy(...) call: the composed orchestrator.
FileStrategy(a) ==
  [ list_file_strategy |-> a.files,
    blob_credential |-> a.storagekey,
    parser_credential |-> a.formrecognizerkey,
    document_action |-> DocumentActionOf(a),
    embeddings |-> EmbeddingsOf(a) ]

NoStrategy ==
  [ list_file_strategy |-> [given |-> FALSE, match |-> {}],
    blob_credential |-> NoKey,
    parser_credential |-> NoKey,
    document_action |-> "Add",
    embeddings |-> NoEmbeddings ]

\* setup_file_strategy(args): exit(1), an exception, or the strategy.
setup_file_strategy(a) ==
  IF a.formrecognizerservice = NoService
  THEN [status |-> "exit", strategy |-> NoStrategy]
  ELSE IF AzureKeyCredentialRaises(a.formrecognizerkey)
  THEN [status |-> "raise", strategy |-> NoStrategy]
  ELSE IF use_vectors(a) /\ a.openaihost # "openai"
          /\ AzureKeyCredentialRaises(a.openai_api_key)
  THEN [status |-> "raise", strategy |-> NoStrategy]
  ELSE [status |-> "ok", strategy |-> FileStrategy(a)]

\* Faulty variant of NeedsSetup: only removeall skips setup.
NeedsSetup_SkipsOnlyRemoveAll(a) == ~a.removeall

\* Faulty variant of NeedsSetup: setup is never awaited.
NeedsSetup_Never(a) == FALSE

\* main: "if not args.remove and not args.removeall"
NeedsSetup(a) == ~a.remove /\ ~a.removeall

\* ------------------------------------------------- prepdocslib (from the
\* written specification of the pipeline)

\* A service accepts an operation only under a key it knows.
Accepted(key) == key = GoodKey

\* The index schema a strategy requires: with or without an embedding field.
RequiredSchema(st) == IF st.embeddings.present THEN "vec" ELSE "novec"

\* Orchestrator.setup: ensures the index exists with the required schema;
\* fails when the service rejects the call or the existing schema conflicts.
SetupFails(st, key, sch) ==
  ~Accepted(key) \/ (sch # "none" /\ sch # RequiredSchema(st))

SetupSchema(st, sch) == IF sch = "none" THEN RequiredSchema(st) ELSE sch

\* Embedding Provider.supportsBatch
SupportsBatch(emb) == emb.model = "text-embedding-ada-002"

\* Embedding batching policy: batched when supported and not disabled.
UseBatch(emb) == SupportsBatch(emb) /\ ~emb.disable_batch

\* Source Lister.list(pattern): the documents the pattern matches.
ListPaths(files) == IF files.given THEN files.match ELSE {}

NoVector == <<>>

\* Embedding of section k of document d: a fixed-dimension vector, the same
\* from computeOne and computeBatch.
Vector(d, k) == <<d, k>>

\* Deterministic id: document identity + section ordinal.
SectionId(d, k) == <<d, k>>

\* The SearchIndexEntry of section k of document d.
SectionEntry(st, d, k) ==
  [id |-> SectionId(d, k), source |-> d, content |-> <<d, k>>,
   emb |-> IF st.embeddings.present THEN Vector(d, k) ELSE NoVector]

\* The entries of all sections of document d.
DocumentEntries(st, d) == { SectionEntry(st, d, k) : k \in 1..NumSections(d) }

\* Index Client.upsert: keyed by id, a record with the same id is replaced.
Upsert(idx, entries) ==
  { e \in idx : \A n \in entries : n.id # e.id } \cup entries

\* Index Client.deleteBySource for a set of paths: exact match on the source.
DeleteBySource(idx, paths) == { e \in idx : e.source \notin paths }

\* Index Client.deleteAll
DeleteAllEntries(idx) == {}

\* Artifact Store.deleteForSource for a set of paths.
DeleteBlobsForSource(blb, paths) == blb \ paths

\* Artifact Store.deleteAll
DeleteAllBlobs(blb) == {}

EmptyIndex == {}

\* The stage at which the processing of one document must fail because a
\* service rejects the credential ("none" when every credential is usable).
ForcedFailure(st, key) ==
  IF ~Accepted(st.parser_credential) THEN "parse"
  ELSE IF st.embeddings.present /\ ~Accepted(st.embeddings.credential) THEN "embed"
  ELSE IF ~Accepted(st.blob_credential) THEN "upload"
  ELSE IF ~Accepted(key) THEN "index"
  ELSE "none"

\* Within one document: parse, (embed), upload, index, in this order.
StageRank(s) ==
  CASE s = "parse" -> 1 [] s = "embed" -> 2 [] s = "upload" -> 3
    [] s = "index" -> 4 [] OTHER -> 5

Stages(st) == IF st.embeddings.present
              THEN {"parse", "embed", "upload", "index"}
              ELSE {"parse", "upload", "index"}

\* How the processing of one document can end: "ok", or the stage that
\* failed.  A transient failure may strike any stage reached.
Outcomes(st, key, mayFail) ==
  LET forced == ForcedFailure(st, key)
      transient == IF mayFail
                   THEN { s \in Stages(st) : StageRank(s) < StageRank(forced) }
                   ELSE {}
  IN (IF forced = "none" THEN {"ok"} ELSE {forced}) \cup transient

\* Faulty variant of AfterDocument: the error leaves run and aborts main.
AfterDocument_Propagates(o) == "failed"

\* Per-document errors are caught at the document boundary: the run goes on.
AfterDocument(o) == "run"

\* ----------------------------------------------------------- state
VARIABLES
  pc,          \* position of the current process execution
  args,        \* the parsed arguments of the current execution
  strategy,    \* the FileStrategy built by setup_file_strategy
  setupCalls,  \* invocations of strategy.setup in this execution
  setupDone,   \* strategy.setup has returned normally in this execution
  runCalls,    \* invocations of strategy.run in this execution
  runAfterSetup, \* strategy.run started while a setup call had not returned
  docStatus,   \* Add: per document, unlisted / pending / ok / failed:<stage>
  transients,  \* transient per-document failures in this execution
  batchCalls,  \* computeBatch calls in this execution
  singleCalls, \* computeOne calls in this execution
  vectorsMade, \* sections whose vector was computed in this execution
  removed,     \* sources whose artifact or entries this execution deleted
  lastAdd,     \* idle: the files of the execution just ended, if a fully successful Add
  rerun,       \* this execution repeats a fully successful Add of the same files
  snap,        \* store and index when a repeated Add was launched
  blobs,       \* artifact store: sources with an uploaded artifact
  index,       \* search index: the set of SearchIndexEntry records
  schema       \* search index schema: "none", "novec", "vec"

vars == <<pc, args, strategy, setupCalls, setupDone, runCalls, runAfterSetup,
          docStatus, transients, batchCalls, singleCalls, vectorsMade, removed,
          lastAdd, rerun, snap, blobs, index, schema>>

NoFiles == [given |-> FALSE, match |-> {}]

NoLastAdd == [ok |-> FALSE, files |-> NoFiles]

NoSnap == [taken |-> FALSE, blobs |-> {}, index |-> EmptyIndex, schema |-> "none"]

Init ==
  /\ pc = "idle"
  /\ args = IdleArgs
  /\ strategy = NoStrategy
  /\ setupCalls = 0
  /\ setupDone = FALSE
  /\ runCalls = 0
  /\ runAfterSetup = FALSE
  /\ docStatus = [d \in Docs |-> "unlisted"]
  /\ transients = 0
  /\ batchCalls = 0
  /\ singleCalls = 0
  /\ vectorsMade = 0
  /\ removed = {}
  /\ lastAdd = NoLastAdd
  /\ rerun = FALSE
  /\ snap = NoSnap
  /\ blobs = {}
  /\ index = EmptyIndex
  /\ schema = "none"

\* The process has ended: exit(1), an exception out of setup_file_strategy,
\* an exception out of main, or main returned.
Ended == {"exited", "raised", "failed", "done"}

AllOk == \A d \in Docs : docStatus[d] \in {"unlisted", "ok"}

Fresh ==
  /\ setupCalls' = 0
  /\ setupDone' = FALSE
  /\ runCalls' = 0
  /\ runAfterSetup' = FALSE
  /\ docStatus' = [d \in Docs |-> "unlisted"]
  /\ transients' = 0
  /\ batchCalls' = 0
  /\ singleCalls' = 0
  /\ vectorsMade' = 0
  /\ removed' = {}

\* __main__: parse_args, then setup_file_strategy(args), in a new process.
Launch(a) ==
  /\ pc = "idle"
  /\ LET r == setup_file_strategy(a)
         again == /\ lastAdd.ok /\ a.files = lastAdd.files
                  /\ r.status = "ok" /\ r.strategy.document_action = "Add"
     IN /\ args' = a
        /\ strategy' = r.strategy
        /\ pc' = IF r.status = "ok" THEN "ready"
                 ELSE IF r.status = "exit" THEN "exited" ELSE "raised"
        /\ rerun' = again
        /\ snap' = IF again
                   THEN [taken |-> TRUE, blobs |-> blobs, index |-> index,
                         schema |-> schema]
                   ELSE NoSnap
  /\ lastAdd' = NoLastAdd
  /\ Fresh
  /\ UNCHANGED <<blobs, index, schema>>

\* The process ends (loop.close(), or the exception ends the interpreter):
\* nothing of it remains but the store and the index.
Exit ==
  /\ pc \in Ended
  /\ pc' = "idle"
  /\ lastAdd' = IF pc = "done" /\ strategy.document_action = "Add" /\ AllOk
                THEN [ok |-> TRUE, files |-> args.files]
                ELSE NoLastAdd
  /\ args' = IdleArgs
  /\ strategy' = NoStrategy
  /\ rerun' = FALSE
  /\ snap' = NoSnap
  /\ Fresh
  /\ UNCHANGED <<blobs, index, schema>>

\* strategy.run(search_info) is invoked: the Add listing is taken.
InvokeRun ==
  /\ runCalls' = runCalls + 1
  /\ runAfterSetup' = (setupCalls > 0 /\ ~setupDone')
  /\ docStatus' = [d \in Docs |->
        IF strategy.document_action = "Add"
           /\ d \in ListPaths(strategy.list_file_strategy)
        THEN "pending" ELSE "unlisted"]
  /\ pc' = "run"

\* main up to its first await: the search credential, then setup or run.
MainStart ==
  /\ pc = "ready"
  /\ IF AzureKeyCredentialRaises(args.searchkey)
     THEN /\ pc' = "failed"
          /\ UNCHANGED <<setupCalls, setupDone, runCalls, runAfterSetup, docStatus>>
     ELSE IF NeedsSetup(args)
     THEN /\ setupCalls' = setupCalls + 1
          /\ pc' = "setup"
          /\ UNCHANGED <<setupDone, runCalls, runAfterSetup, docStatus>>
     ELSE /\ InvokeRun
          /\ UNCHANGED <<setupCalls, setupDone>>
  /\ UNCHANGED <<args, strategy, transients, batchCalls, singleCalls, vectorsMade,
                 removed, lastAdd, rerun, snap, blobs, index, schema>>

\* await strategy.setup(search_info) completes: it raises, or it returns and
\* main goes on to invoke strategy.run.
SetupReturn ==
  /\ pc = "setup"
  /\ IF SetupFails(strategy, args.searchkey, schema)
     THEN /\ pc' = "failed"
          /\ UNCHANGED <<setupDone, runCalls, runAfterSetup, docStatus, schema>>
     ELSE /\ schema' = SetupSchema(strategy, schema)
          /\ setupDone' = TRUE
          /\ InvokeRun
  /\ UNCHANGED <<args, strategy, setupCalls, transients, batchCalls, singleCalls,
                 vectorsMade, removed, lastAdd, rerun, snap, blobs, index>>

\* FileStrategy.run, Add: one document of the listing is processed: parse,
\* split, embed (if a provider is configured), upload, upsert; o is how it ends.
ProcessDocument(d, o) ==
  /\ pc = "run"
  /\ strategy.document_action = "Add"
  /\ docStatus[d] = "pending"
  /\ o \in Outcomes(strategy, args.searchkey, transients < MaxTransients)
  /\ transients' = IF o \in {"ok", ForcedFailure(strategy, args.searchkey)}
                   THEN transients ELSE transients + 1
  /\ LET emb == strategy.embeddings
         embedding == emb.present /\ o # "parse"
         embedded == embedding /\ o # "embed"
     IN /\ batchCalls' = IF embedding /\ UseBatch(emb)
                         THEN batchCalls + 1 ELSE batchCalls
        /\ singleCalls' = IF embedding /\ ~UseBatch(emb)
                          THEN singleCalls + (IF embedded THEN NumSections(d) ELSE 1)
                          ELSE singleCalls
        /\ vectorsMade' = IF embedded THEN vectorsMade + NumSections(d)
                          ELSE vectorsMade
  /\ blobs' = IF o \in {"index", "ok"} THEN blobs \cup {d} ELSE blobs
  /\ index' = IF o = "ok" THEN Upsert(index, DocumentEntries(strategy, d)) ELSE index
  /\ docStatus' = [docStatus EXCEPT ![d] = o]
  /\ pc' = IF o = "ok" THEN "run" ELSE AfterDocument(o)
  /\ UNCHANGED <<args, strategy, setupCalls, setupDone, runCalls, runAfterSetup,
                 removed, lastAdd, rerun, snap, schema>>

\* FileStrategy.run, Add: the listing is exhausted, run returns and so does main.
RunAddReturn ==
  /\ pc = "run"
  /\ strategy.document_action = "Add"
  /\ \A d \in Docs : docStatus[d] # "pending"
  /\ pc' = "done"
  /\ UNCHANGED <<args, strategy, setupCalls, setupDone, runCalls, runAfterSetup,
                 docStatus, transients, batchCalls, singleCalls, vectorsMade,
                 removed, lastAdd, rerun, snap, blobs, index, schema>>

\* The sources that hold an artifact or an index entry among paths.
Held(paths) == { d \in paths : d \in blobs \/ \E e \in index : e.source = d }

\* Deleting from the store, then from the index; a rejected call raises out
\* of run and main, the calls before it having taken effect.
DeleteBoth(newBlobs, newIndex, gone) ==
  IF ~Accepted(strategy.blob_credential)
  THEN /\ pc' = "failed"
       /\ UNCHANGED <<blobs, index, removed>>
  ELSE IF ~Accepted(args.searchkey)
  THEN /\ pc' = "failed"
       /\ blobs' = newBlobs
       /\ removed' = gone \cap blobs
       /\ UNCHANGED index
  ELSE /\ pc' = "done"
       /\ blobs' = newBlobs
       /\ index' = newIndex
       /\ removed' = gone

\* FileStrategy.run, Remove: artifacts and entries of the given paths.
RunRemove ==
  /\ pc = "run"
  /\ strategy.document_action = "Remove"
  /\ LET paths == ListPaths(strategy.list_file_strategy)
     IN DeleteBoth(DeleteBlobsForSource(blobs, paths),
                   DeleteBySource(index, paths), Held(paths))
  /\ UNCHANGED <<args, strategy, setupCalls, setupDone, runCalls, runAfterSetup,
                 docStatus, transients, batchCalls, singleCalls, vectorsMade,
                 lastAdd, rerun, snap, schema>>

\* FileStrategy.run, RemoveAll: every artifact and every entry.
RunRemoveAll ==
  /\ pc = "run"
  /\ strategy.document_action = "RemoveAll"
  /\ DeleteBoth(DeleteAllBlobs(blobs), DeleteAllEntries(index), Held(Docs))
  /\ UNCHANGED <<args, strategy, setupCalls, setupDone, runCalls, runAfterSetup,
                 docStatus, transients, batchCalls, singleCalls, vectorsMade,
                 lastAdd, rerun, snap, schema>>

Next ==
  \/ \E o \in OptionArgs, c \in CredentialArgs : Launch(ArgsOf(o, c))
  \/ MainStart
  \/ SetupReturn
  \/ \E d \in Docs : \E o \in {"ok", "parse", "embed", "upload", "index"} :
        ProcessDocument(d, o)
  \/ RunAddReturn
  \/ RunRemove
  \/ RunRemoveAll
  \/ Exit

Spec == Init /\ [][Next]_vars

\* ------------------------------------------------------------ properties

\* setup_file_strategy returned a strategy and main was entered.
Built == pc \in {"ready", "setup", "run", "done", "failed"}

Action == strategy.document_action

RECURSIVE SumSections(_)
SumSections(S) ==
  IF S = {} THEN 0
  ELSE LET d == CHOOSE x \in S : TRUE IN NumSections(d) + SumSections(S \ {d})

\* The entries this execution's Add wrote: those of the documents it indexed.
Written == { e \in index : docStatus[e.source] = "ok" }

MissingCredential ==
  \/ is_key_empty(args.storagekey)
  \/ is_key_empty(args.searchkey)
  \/ args.formrecognizerservice = NoService
  \/ is_key_empty(args.formrecognizerkey)
  \/ (use_vectors(args) /\ args.openaihost # "openai"
      /\ is_key_empty(args.openai_api_key))

\* C2: when a configured credential or identity is missing or invalid, the
\* execution aborts before strategy.setup or strategy.run is invoked.
C2_ConfigErrorsAbortBeforeEffects ==
  MissingCredential => setupCalls = 0 /\ runCalls = 0

\* C3: with novectors set the strategy holds no embedding provider, the
\* provider is never called, and no entry written carries an embedding.
C3_VectorGating ==
  Built /\ args.novectors =>
    /\ ~strategy.embeddings.present
    /\ batchCalls = 0 /\ singleCalls = 0 /\ vectorsMade = 0
    /\ \A e \in Written : e.emb = NoVector

\* C3, witness: an Add execution with novectors indexed every document.
C3_Witness ==
  /\ pc = "done" /\ args.novectors /\ Action = "Add"
  /\ \A d \in Docs : docStatus[d] = "ok"
  /\ \A d \in Docs : \E e \in index : e.source = d

\* C4: with novectors not set, for every openaihost, the strategy holds an
\* embedding provider and every entry written carries a vector.
C4_ProviderWheneverVectorsEnabled ==
  Built /\ use_vectors(args) =>
    /\ strategy.embeddings.present
    /\ \A e \in Written : e.emb # NoVector

\* C5: an execution with removeall set that returns leaves the artifact
\* store and the index empty, whatever the files argument and the history.
C5_RemoveAllEmpties ==
  pc = "done" /\ args.removeall => blobs = {} /\ index = {}

\* C5, witness: removeall with a files pattern emptied a store and an index
\* that held every document.
C5_Witness ==
  /\ pc = "done" /\ args.removeall /\ args.files.given
  /\ args.files.match # Docs
  /\ removed = Docs /\ blobs = {} /\ index = {}

\* C6: every step of an execution with remove (and not removeall) set leaves
\* the entries and artifacts of every other source, and the schema, as they
\* were; when it returns, nothing of the given paths is left.
C6_RemoveIsolation ==
  [][ (pc \notin {"idle"} \cup Ended /\ args.remove /\ ~args.removeall) =>
        LET paths == ListPaths(args.files)
        IN /\ { e \in index' : e.source \notin paths }
                = { e \in index : e.source \notin paths }
           /\ blobs' \ paths = blobs \ paths
           /\ schema' = schema
           /\ (pc' = "done" =>
                 /\ blobs' \cap paths = {}
                 /\ \A e \in index' : e.source \notin paths) ]_vars

\* C6, witness: Remove of D1 deleted D1's artifact and entries while D2's
\* artifact and entry are in place.
C6_Witness ==
  /\ pc = "done" /\ args.remove /\ ~args.removeall
  /\ args.files.match = {"D1"} /\ removed = {"D1"}
  /\ "D2" \in blobs /\ \E e \in index : e.source = "D2"
  /\ "D1" \notin blobs /\ \A e \in index : e.source # "D1"

\* C7: an Add execution that follows a fully successful Add execution of the
\* same files leaves the artifacts, the entries (ids and contents) and the
\* schema exactly as the first one left them.
C7_AddIdempotent ==
  rerun => blobs = snap.blobs /\ index = snap.index /\ schema = snap.schema

\* C7, witness: the second Add of both documents returned, all indexed.
C7_Witness ==
  /\ rerun /\ pc = "done" /\ setupCalls = 1 /\ runCalls = 1
  /\ \A d \in Docs : docStatus[d] = "ok"
  /\ Cardinality(index) = SumSections(Docs)

EmbedReached == { d \in Docs : docStatus[d] \in {"ok", "embed", "upload", "index"} }

EmbedFailed == { d \in Docs : docStatus[d] = "embed" }

\* C8: a configured provider embeds in batches exactly when it supports
\* batching and disablebatchvectors is not set: then one batch call per
\* document and no single call; otherwise no batch call and one single
\* call per section.
C8_BatchingPolicy ==
  Built /\ strategy.embeddings.present =>
    /\ vectorsMade = SumSections(EmbedReached \ EmbedFailed)
    /\ IF SupportsBatch(strategy.embeddings) /\ ~args.disablebatchvectors
       THEN singleCalls = 0 /\ batchCalls = Cardinality(EmbedReached)
       ELSE batchCalls = 0
            /\ singleCalls = vectorsMade + Cardinality(EmbedFailed)

\* C8, witness: batching supported but disabled; every section of every
\* document was embedded by its own call.
C8_Witness ==
  /\ pc = "done" /\ strategy.embeddings.present
  /\ SupportsBatch(strategy.embeddings) /\ args.disablebatchvectors
  /\ \A d \in Docs : docStatus[d] = "ok"
  /\ singleCalls = SumSections(Docs) /\ batchCalls = 0

\* C9: in an Add execution no per-document failure aborts main once run has
\* started, and when run returns every listed document has been processed,
\* the ones that did not fail being indexed.
C9_DocumentErrorsDoNotHalt ==
  /\ (runCalls > 0 /\ Action = "Add" => pc # "failed")
  /\ (pc = "done" /\ Action = "Add" =>
        \A d \in ListPaths(args.files) :
          /\ docStatus[d] \in {"ok", "parse", "embed", "upload", "index"}
          /\ (docStatus[d] = "ok" =>
                DocumentEntries(strategy, d) \subseteq index /\ d \in blobs))

\* C9, witness: one document failed, another was indexed, the run returned.
C9_Witness ==
  /\ pc = "done" /\ Action = "Add"
  /\ \E d \in Docs : docStatus[d] \in {"parse", "embed", "upload", "index"}
  /\ \E d \in Docs : docStatus[d] = "ok" /\ \E e \in index : e.source = d

\* C10: the action is RemoveAll when removeall is set, Remove when only
\* remove is set, Add when neither is; files plays no part.
C10_ActionSelection ==
  Built =>
    /\ (args.removeall => Action = "RemoveAll")
    /\ (args.remove /\ ~args.removeall => Action = "Remove")
    /\ (~args.remove /\ ~args.removeall => Action = "Add")

\* C10, witness: both flags and a files pattern given, RemoveAll chosen.
C10_Witness ==
  /\ Built /\ args.remove /\ args.removeall /\ args.files.given
  /\ Action = "RemoveAll"

====
